---- MODULE Spec2Model ----
(***************************************************************************)
(* Model of crypt/market-fetcher/market-query.py: the quote fetch with its *)
(* market-cap filter (get_crypto_data), the history enrichment             *)
(* (get_complete_data), the JSON file (load_crypto_data, json.dump), the   *)
(* change filter (change_percent_filter) and the entry point (__main__).   *)
(*                                                                         *)
(* Python values.  An optional decimal is a sequence: None is <<>> and the *)
(* number x is <<x>>.  A dict is a record [t, keys, vals]: keys is the     *)
(* insertion order and vals the mapping.  Decimals are integers; the       *)
(* percent (current - past) / past * 100 is computed exactly, the sample   *)
(* prices being chosen so that the division leaves no remainder.           *)
(***************************************************************************)
EXTENDS Integers, Sequences, FiniteSets, TLC

VARIABLES
    op,              \* the fetcher method in progress or last called
    symbols,         \* argument symbols
    min_market_cap,  \* argument min_market_cap
    response,        \* the body of quotes/latest, or a transport failure
    current_data,    \* the returned value: pyNone, a dict, or an exception
    filtered_count,  \* get_crypto_data's counter
    idx,             \* position of get_complete_data's loop in symbols
    file,            \* crypto_data.json
    period,          \* argument period of change_percent_filter
    threshold_str,   \* argument threshold_str of change_percent_filter
    filtered,        \* outcome of the last change_percent_filter call
    loaded,          \* outcome of the last load_crypto_data call
    pc,              \* position of the entry point
    data,            \* the entry point's variable data
    runs             \* number of runs of the entry point started

vars == <<op, symbols, min_market_cap, response, current_data, filtered_count,
          idx, file, period, threshold_str, filtered, loaded, pc, data, runs>>

fetchVars == <<op, symbols, min_market_cap, response, current_data,
               filtered_count, idx>>
filterVars == <<period, threshold_str, filtered, loaded>>
mainVars == <<pc, data, runs>>

\* ---------------------------------------------------------------- bounds

MaxSyms == 2        \* longest symbol list passed to the fetcher
MaxFileSyms == 2    \* most records in a file written by hand
MaxRuns == 2        \* runs of the entry point

\* ---------------------------------------------------------------- values

None == <<>>
Num(x) == <<x>>
\* Python truth of an optional decimal: None and 0 are false.
Truthy(v) == v # None /\ v[1] # 0

pyNone == [t |-> "None"]
EmptyDict == [t |-> "dict", keys |-> <<>>, vals |-> <<>>]
Raised(e) == [t |-> "raised", exc |-> e]

HasKey(d, k) == k \in DOMAIN d.vals
DictSet(d, k, v) ==
    [t |-> "dict",
     keys |-> IF HasKey(d, k) THEN d.keys ELSE Append(d.keys, k),
     vals |-> (k :> v) @@ d.vals]
\* Python truth of a returned value: None and the empty dict are false.
NotData(d) == d.t = "None" \/ (d.t = "dict" /\ d.keys = <<>>)

Range(s) == {s[i] : i \in 1..Len(s)}

RECURSIVE SeqsUpTo(_, _)
SeqsUpTo(S, n) ==
    IF n = 0 THEN {<<>>}
    ELSE LET shorter == SeqsUpTo(S, n - 1)
         IN shorter \cup {Append(s, x) : s \in {q \in shorter : Len(q) = n - 1}, x \in S}

\* ------------------------------------------------------- get_crypto_data

Symbols == {"BTC", "ETH"}
SymbolLists == SeqsUpTo(Symbols, MaxSyms)
Caps == {None, Num(1), Num(2), Num(3)}
MinCaps == {None, Num(2)}
Prices == {None, Num(100)}

Quote(s, price, cap, c24, c7, c30) ==
    [name |-> s, symbol |-> s, price |-> price, volume_24h |-> Num(7),
     percent_change_24h |-> c24, percent_change_7d |-> c7,
     percent_change_30d |-> c30, market_cap |-> cap, last_updated |-> "t0"]

\* The quotes a response can hold for s, by market cap.
QuotesOf(s, caps) == {Quote(s, p, m, Num(-12), Num(8), None) : p \in Prices, m \in caps}
AnyCapQuotes == UNION {QuotesOf(s, Caps) : s \in Symbols}

\* The bodies quotes/latest can answer a request for the symbols of syms
\* with: a transport failure, or data holding a quote for some of the
\* requested symbols, each under its own symbol and drawn from quotes.
Responses(syms, quotes) ==
    {[t |-> "RequestException"]} \cup
    UNION {{[t |-> "ok", data |-> d] :
               d \in {f \in [present -> quotes] : \A s \in present : f[s].symbol = s}}
           : present \in SUBSET Range(syms)}

\* a filter that also drops a market cap equal to the threshold
ExcludedAtThreshold(cap, minCap) == minCap # None /\ cap # None /\ cap[1] <= minCap[1]

\* market-query.py:44
Excluded(cap, minCap) == minCap # None /\ cap # None /\ cap[1] < minCap[1]

\* market-query.py:49-59
NewRecord(crypto) ==
    [name |-> crypto.name, symbol |-> crypto.symbol,
     current_price |-> crypto.price, volume_24h |-> crypto.volume_24h,
     percent_change_24h |-> crypto.percent_change_24h,
     percent_change_7d |-> crypto.percent_change_7d,
     percent_change_30d |-> crypto.percent_change_30d,
     market_cap |-> crypto.market_cap, last_updated |-> crypto.last_updated]

\* a counter that misses the exclusion
CountNothing(acc) == acc

\* market-query.py:45
CountExcluded(acc) == [acc EXCEPT !.filtered_count = @ + 1]

\* market-query.py:37-59, the loop from position i on
RECURSIVE BuildLoop(_, _, _, _, _)
BuildLoop(syms, d, minCap, i, acc) ==
    IF i > Len(syms) THEN acc
    ELSE LET s == syms[i]
         IN IF s \notin DOMAIN d THEN BuildLoop(syms, d, minCap, i + 1, acc)
            ELSE IF Excluded(d[s].market_cap, minCap)
                 THEN BuildLoop(syms, d, minCap, i + 1, CountExcluded(acc))
                 ELSE BuildLoop(syms, d, minCap, i + 1,
                                [acc EXCEPT !.results = DictSet(@, s, NewRecord(d[s]))])

\* market-query.py:14-68
GetCryptoData(syms, minCap, resp) ==
    IF resp.t = "RequestException"
    THEN [results |-> pyNone, filtered_count |-> 0]
    ELSE BuildLoop(syms, resp.data, minCap, 1,
                   [results |-> EmptyDict, filtered_count |-> 0])

CallGetCryptoData ==
    /\ op = "idle"
    /\ \E syms \in SymbolLists, minCap \in MinCaps :
         \E resp \in Responses(syms, AnyCapQuotes) :
            LET r == GetCryptoData(syms, minCap, resp)
            IN /\ symbols' = syms
               /\ min_market_cap' = minCap
               /\ response' = resp
               /\ current_data' = r.results
               /\ filtered_count' = r.filtered_count
    /\ op' = "get_crypto_data"
    /\ idx' = 0
    /\ UNCHANGED <<file, filterVars, mainVars>>

\* ----------------------------------------------------- get_complete_data

HistPrices == {None, Num(0), Num(50)}
CompleteQuotes == UNION {QuotesOf(s, {Num(1), Num(3)}) : s \in Symbols}

\* market-query.py:135, with the division exact on the sample prices
Pct(cur, past) == ((cur - past) * 100) \div past

\* a gate that tests presence only, and divides by a zero price's stand-in
SetChangeIfPresent(info, field, price) ==
    IF price # None
    THEN (field :> Num(IF price[1] = 0 THEN 0 ELSE Pct(info.current_price[1], price[1]))) @@ info
    ELSE info

\* market-query.py:134-135, one window: the field is written only for a
\* price that is true; the subtraction needs a current price.
SetChange(info, field, price) ==
    IF Truthy(price) THEN (field :> Num(Pct(info.current_price[1], price[1]))) @@ info
    ELSE info

\* market-query.py:127-139 for one symbol; TypeError is raised when
\* None - float is evaluated.
AddHistory(info, p1, p3, p6) ==
    LET withPrices == ("price_1_month_ago" :> p1) @@ ("price_3_months_ago" :> p3)
                      @@ ("price_6_months_ago" :> p6) @@ info
    IN IF info.current_price = None /\ (Truthy(p1) \/ Truthy(p3) \/ Truthy(p6))
       THEN Raised("TypeError")
       ELSE [t |-> "ok",
             info |-> SetChange(SetChange(SetChange(withPrices, "change_1m_percent", p1),
                                          "change_3m_percent", p3),
                                "change_6m_percent", p6)]

\* market-query.py:112-115: get_crypto_data, then None for no data
BeginCompleteData(syms, minCap, resp) ==
    LET r == GetCryptoData(syms, minCap, resp)
    IN /\ symbols' = syms
       /\ min_market_cap' = minCap
       /\ response' = resp
       /\ filtered_count' = r.filtered_count
       /\ IF NotData(r.results)
          THEN current_data' = pyNone /\ op' = "returned" /\ idx' = 0
          ELSE current_data' = r.results /\ op' = "get_complete_data" /\ idx' = 1

CallGetCompleteData ==
    /\ op = "idle"
    /\ \E syms \in SymbolLists, minCap \in MinCaps :
         \E resp \in Responses(syms, CompleteQuotes) :
            BeginCompleteData(syms, minCap, resp)
    /\ UNCHANGED <<file, filterVars, mainVars>>

\* market-query.py:118-139, one iteration of the loop over symbols
HistoryIteration(prices) ==
    /\ op = "get_complete_data"
    /\ idx <= Len(symbols)
    /\ LET s == symbols[idx]
       IN IF ~HasKey(current_data, s)
          THEN idx' = idx + 1 /\ UNCHANGED <<op, current_data>>
          ELSE \E p1 \in prices, p3 \in prices, p6 \in prices :
                 LET r == AddHistory(current_data.vals[s], p1, p3, p6)
                 IN IF r.t = "raised"
                    THEN /\ current_data' = r
                         /\ op' = "raised"
                         /\ idx' = idx
                    ELSE /\ current_data' = DictSet(current_data, s, r.info)
                         /\ idx' = idx + 1
                         /\ op' = op
    /\ UNCHANGED <<symbols, min_market_cap, response, filtered_count>>

HistoryStep ==
    /\ HistoryIteration(HistPrices)
    /\ UNCHANGED <<file, filterVars, mainVars>>

\* market-query.py:141
ReturnCompleteData ==
    /\ op = "get_complete_data"
    /\ idx > Len(symbols)
    /\ op' = "returned"
    /\ UNCHANGED <<symbols, min_market_cap, response, current_data,
                   filtered_count, idx, file, filterVars, mainVars>>

\* The caller is done with the value; the fetcher can be called again.
FetcherIdle ==
    /\ op \in {"get_crypto_data", "returned", "raised"}
    /\ pc = "start"
    /\ op' = "idle"
    /\ symbols' = <<>>
    /\ min_market_cap' = None
    /\ response' = [t |-> "RequestException"]
    /\ current_data' = pyNone
    /\ filtered_count' = 0
    /\ idx' = 0
    /\ UNCHANGED <<file, filterVars, mainVars>>

\* ------------------------------------------------- the file and its JSON

\* json.dump (market-query.py:294-295): the dict becomes a JSON object, a
\* sequence of members in the dict's order.
JsonDump(d) ==
    [kind |-> "json",
     doc |-> [j |-> "object",
              members |-> [i \in 1..Len(d.keys) |-> <<d.keys[i], d.vals[d.keys[i]]>>]]]

RECURSIVE MembersToDict(_, _, _)
MembersToDict(members, i, d) ==
    IF i > Len(members) THEN d
    ELSE MembersToDict(members, i + 1, DictSet(d, members[i][1], members[i][2]))

\* json.load (market-query.py:172): a JSON object becomes a dict, an array a
\* list; whatever the document is, it is returned as parsed.
JsonLoad(doc) ==
    IF doc.j = "object" THEN MembersToDict(doc.members, 1, EmptyDict)
    ELSE [t |-> "list", len |-> doc.len]

\* market-query.py:168-178.  open() raises FileNotFoundError for a missing
\* file and another OSError for one that cannot be read; only the first and
\* json.JSONDecodeError are caught.
LoadCryptoData(f) ==
    CASE f.kind = "missing" ->
           [t |-> "returned", value |-> pyNone, notices |-> {"not found"}]
      [] f.kind = "not json" ->
           [t |-> "returned", value |-> pyNone, notices |-> {"Invalid JSON"}]
      [] f.kind = "unreadable" -> Raised("PermissionError")
      [] f.kind = "json" ->
           [t |-> "returned", value |-> JsonLoad(f.doc), notices |-> {}]

\* Python truth of a loaded value (market-query.py:195)
NotLoaded(v) ==
    \/ v.t = "None"
    \/ v.t = "dict" /\ v.keys = <<>>
    \/ v.t = "list" /\ v.len = 0

\* -------------------------------------------------- change_percent_filter

Periods == {"24h", "7d", "30d", "1m", "3m", "6m"}
InputPeriods == Periods \cup {"1y"}

\* market-query.py:202-209
period_map ==
    [p \in Periods |->
        CASE p = "24h" -> "percent_change_24h"
          [] p = "7d" -> "percent_change_7d"
          [] p = "30d" -> "percent_change_30d"
          [] p = "1m" -> "change_1m_percent"
          [] p = "3m" -> "change_3m_percent"
          [] p = "6m" -> "change_6m_percent"]

Digits == {"0", "1", "2", "3", "4", "5", "6", "7", "8", "9"}
DigitVal(c) ==
    CASE c = "0" -> 0 [] c = "1" -> 1 [] c = "2" -> 2 [] c = "3" -> 3
      [] c = "4" -> 4 [] c = "5" -> 5 [] c = "6" -> 6 [] c = "7" -> 7
      [] c = "8" -> 8 [] c = "9" -> 9

\* str.strip('%'): every leading and every trailing % is removed.
RECURSIVE StripPercent(_)
StripPercent(text) ==
    IF text = <<>> THEN text
    ELSE IF Head(text) = "%" THEN StripPercent(Tail(text))
    ELSE IF text[Len(text)] = "%" THEN StripPercent(SubSeq(text, 1, Len(text) - 1))
    ELSE text

RECURSIVE DigitsValue(_, _)
DigitsValue(ds, acc) ==
    IF ds = <<>> THEN acc ELSE DigitsValue(Tail(ds), acc * 10 + DigitVal(Head(ds)))

\* float() on the texts of ThresholdTexts: an optional sign and one or more
\* digits give the number, anything else raises ValueError.
ParseFloat(text) ==
    LET signed == text # <<>> /\ Head(text) \in {"+", "-"}
        ds == IF signed THEN Tail(text) ELSE text
    IN IF ds = <<>> \/ \E i \in 1..Len(ds) : ds[i] \notin Digits
       THEN [ok |-> FALSE]
       ELSE [ok |-> TRUE,
             v |-> IF signed /\ Head(text) = "-" THEN 0 - DigitsValue(ds, 0)
                   ELSE DigitsValue(ds, 0)]

\* a comparison that takes the drop rule for a threshold of zero as well
SelectedDropAtZero(v, threshold) ==
    IF threshold <= 0 THEN v <= threshold ELSE v >= threshold

\* market-query.py:227-232
Selected(v, threshold) ==
    IF threshold < 0 THEN v <= threshold ELSE v >= threshold

\* market-query.py:219-232, the loop over data.items() from position i on
RECURSIVE FilterLoop(_, _, _, _, _)
FilterLoop(d, field, threshold, i, acc) ==
    IF i > Len(d.keys) THEN acc
    ELSE LET symbol == d.keys[i]
             info == d.vals[symbol]
         IN IF field \notin DOMAIN info \/ info[field] = None
            THEN FilterLoop(d, field, threshold, i + 1, acc)
            ELSE IF Selected(info[field][1], threshold)
                 THEN FilterLoop(d, field, threshold, i + 1,
                          Append(acc, [symbol |-> symbol, info |-> info,
                                       change |-> info[field][1]]))
                 ELSE FilterLoop(d, field, threshold, i + 1, acc)

\* list.sort is stable: an item goes after the items that are not greater.
RECURSIVE InsertByChange(_, _)
InsertByChange(sorted, x) ==
    IF sorted = <<>> THEN <<x>>
    ELSE IF sorted[Len(sorted)].change <= x.change THEN Append(sorted, x)
    ELSE Append(InsertByChange(SubSeq(sorted, 1, Len(sorted) - 1), x),
                sorted[Len(sorted)])

RECURSIVE SortLoop(_, _, _)
SortLoop(coins, i, sorted) ==
    IF i > Len(coins) THEN sorted
    ELSE SortLoop(coins, i + 1, InsertByChange(sorted, coins[i]))

\* a filter that leaves the coins in the file's order
KeepOrder(coins) == coins

\* market-query.py:235
SortByChange(coins) == SortLoop(coins, 1, <<>>)

\* market-query.py:253-256: for the quote periods every selected coin's
\* three quote percentages are formatted with :.2f, which raises TypeError
\* for None (info.get returns the stored None, not the default).
PrintRaises(per, coins) ==
    /\ per \in {"24h", "7d", "30d"}
    /\ \E i \in 1..Len(coins) :
         \E f \in {"percent_change_24h", "percent_change_7d", "percent_change_30d"} :
            f \in DOMAIN coins[i].info /\ coins[i].info[f] = None

Filtered(result, notices) ==
    [t |-> "returned", result |-> result, notices |-> notices]

\* market-query.py:198-263, once data is loaded and true
FilterLoaded(d, per, text, notices) ==
    LET parsed == ParseFloat(StripPercent(text))
    IN IF ~parsed.ok THEN Raised("ValueError")
       ELSE IF per \notin Periods
            THEN Filtered(<<>>, notices \cup {"Invalid period"})
       ELSE IF d.t # "dict" THEN Raised("AttributeError")
       ELSE LET coins == SortByChange(FilterLoop(d, period_map[per], parsed.v, 1, <<>>))
            IN IF coins = <<>>
               THEN Filtered(coins, notices \cup {"No coins found"})
               ELSE IF PrintRaises(per, coins) THEN Raised("TypeError")
               ELSE Filtered(coins, notices \cup {"Total coins found"})

\* market-query.py:181-263
ChangePercentFilter(f, per, text) ==
    LET l == LoadCryptoData(f)
    IN IF l.t = "raised" THEN l
       ELSE IF NotLoaded(l.value) THEN Filtered(<<>>, l.notices)
       ELSE FilterLoaded(l.value, per, text, l.notices)

Chars10Neg == <<"-", "1", "0", "%">>
Chars10 == <<"1", "0", "%">>
Chars0 == <<"0", "%">>
Chars5Neg == <<"-", "5", "%">>
Chars20 == <<"2", "0", "%">>
ThresholdTexts ==
    {Chars10Neg, Chars10, Chars0, <<"%", "-", "1", "2">>, <<"a", "b", "c">>, <<>>}

CallChangePercentFilter ==
    /\ filtered.t = "idle"
    /\ loaded.t = "idle"
    /\ \E per \in InputPeriods, text \in ThresholdTexts :
         /\ period' = per
         /\ threshold_str' = text
         /\ filtered' = ChangePercentFilter(file, per, text)
    /\ loaded' = LoadCryptoData(file)
    /\ UNCHANGED <<fetchVars, file, mainVars>>

CallLoadCryptoData ==
    /\ filtered.t = "idle"
    /\ loaded.t = "idle"
    /\ loaded' = LoadCryptoData(file)
    /\ UNCHANGED <<fetchVars, file, period, threshold_str, filtered, mainVars>>

\* The caller is done with the result; the filter can be called again.
FilterIdle ==
    /\ loaded.t # "idle"
    /\ pc = "start"
    /\ filtered' = [t |-> "idle"]
    /\ loaded' = [t |-> "idle"]
    /\ period' = "24h"
    /\ threshold_str' = <<>>
    /\ UNCHANGED <<fetchVars, file, mainVars>>

\* The files change_percent_filter can find: none, one that is not JSON, one
\* that cannot be read, a JSON array, and the JSON of a record set as
\* get_complete_data builds it and json.dump writes it.
FileSymbolList == <<"BTC", "ETH", "SOL", "BNB">>
FileSymbols == {FileSymbolList[i] : i \in 1..MaxFileSyms}
ChangeSamples ==
    {<<Num(-12), Num(8), Num(-12)>>, <<Num(10), Num(8), Num(10)>>,
     <<None, Num(-12), Num(10)>>, <<Num(0), Num(10), Num(-12)>>}
HistorySamples == {<<None, None, Num(0)>>, <<Num(50), Num(200), None>>}
FileInfos(s) ==
    {AddHistory(NewRecord(Quote(s, Num(100), Num(3), c[1], c[2], c[3])),
                h[1], h[2], h[3]).info : c \in ChangeSamples, h \in HistorySamples}

RECURSIVE RecordSets(_)
RecordSets(n) ==
    IF n = 0 THEN {EmptyDict}
    ELSE LET smaller == RecordSets(n - 1)
         IN smaller \cup
            UNION {{DictSet(d, s, info) : info \in FileInfos(s)} :
                   d \in {r \in smaller : Len(r.keys) = n - 1},
                   s \in FileSymbols}

Files ==
    {[kind |-> "missing"], [kind |-> "not json"], [kind |-> "unreadable"],
     [kind |-> "json", doc |-> [j |-> "array", len |-> 0]],
     [kind |-> "json", doc |-> [j |-> "array", len |-> 1]]}
    \cup {JsonDump(d) : d \in RecordSets(MaxFileSyms)}

\* ------------------------------------------------------------- __main__

\* market-query.py:272, the first two of the 25 symbols
crypto_symbols == <<"BTC", "ETH">>
\* market-query.py:275, in billions of USD
MIN_MARKET_CAP == 5

MainQuotes ==
    {Quote(s, p, m, c[1], c[2], c[3]) :
        s \in Range(crypto_symbols), p \in Prices,
        m \in {Num(MIN_MARKET_CAP - 1), Num(MIN_MARKET_CAP)},
        c \in {<<Num(-12), Num(8), Num(-12)>>, <<None, Num(-12), Num(10)>>}}
MainHistPrices == {None, Num(50)}

\* market-query.py:304-319
Queries ==
    <<[period |-> "7d", text |-> Chars10Neg], [period |-> "24h", text |-> Chars10],
      [period |-> "30d", text |-> Chars5Neg], [period |-> "1m", text |-> Chars20]>>
QueryPc == <<"query1", "query2", "query3", "query4", "exit">>

\* market-query.py:153-156: volume and the three quote percentages are
\* formatted without a test for None.
DisplayRaises(d) ==
    \E s \in DOMAIN d.vals :
       \E f \in {"volume_24h", "percent_change_24h", "percent_change_7d",
                 "percent_change_30d"} : d.vals[s][f] = None

\* a save that keeps the members the file already had
SavedFileMerged(d, old) ==
    IF old.kind = "json" /\ old.doc.j = "object"
    THEN JsonDump(MembersToDict(JsonDump(d).doc.members, 1, JsonLoad(old.doc)))
    ELSE JsonDump(d)

\* market-query.py:294-295: open(..., 'w') truncates, json.dump writes data
SavedFile(d, old) == JsonDump(d)

\* market-query.py:287, the call and get_crypto_data inside it
MainStart ==
    /\ pc = "start"
    /\ op = "idle"
    /\ runs < MaxRuns
    /\ runs' = runs + 1
    /\ \E resp \in Responses(crypto_symbols, MainQuotes) :
         BeginCompleteData(crypto_symbols, Num(MIN_MARKET_CAP), resp)
    /\ pc' = "fetch"
    /\ UNCHANGED <<file, filterVars, data>>

MainHistoryStep ==
    /\ pc = "fetch"
    /\ HistoryIteration(MainHistPrices)
    /\ UNCHANGED <<file, filterVars, mainVars>>

\* market-query.py:287-298: the assignment and the test of data
MainGotData ==
    /\ pc = "fetch"
    /\ op \in {"returned", "raised"}
    /\ IF op = "raised" THEN pc' = "crashed" /\ data' = data
       ELSE /\ data' = current_data
            /\ pc' = IF NotData(current_data) THEN "query1" ELSE "display"
    /\ UNCHANGED <<fetchVars, file, filterVars, runs>>

\* market-query.py:291
MainDisplay ==
    /\ pc = "display"
    /\ pc' = IF DisplayRaises(data) THEN "crashed" ELSE "save"
    /\ UNCHANGED <<fetchVars, file, filterVars, data, runs>>

\* market-query.py:294-296
MainSave ==
    /\ pc = "save"
    /\ file' = SavedFile(data, file)
    /\ pc' = "query1"
    /\ UNCHANGED <<fetchVars, filterVars, data, runs>>

\* market-query.py:307, 311, 315, 319
MainQuery ==
    /\ \E n \in 1..Len(Queries) :
         /\ pc = QueryPc[n]
         /\ period' = Queries[n].period
         /\ threshold_str' = Queries[n].text
         /\ filtered' = ChangePercentFilter(file, Queries[n].period, Queries[n].text)
         /\ loaded' = LoadCryptoData(file)
         /\ pc' = IF filtered'.t = "raised" THEN "crashed" ELSE QueryPc[n + 1]
    /\ UNCHANGED <<fetchVars, file, data, runs>>

\* The process has ended; the next run starts afresh and finds the file as
\* this run left it.
MainRestart ==
    /\ pc \in {"exit", "crashed"}
    /\ runs < MaxRuns
    /\ pc' = "start"
    /\ data' = pyNone
    /\ op' = "idle"
    /\ symbols' = <<>>
    /\ min_market_cap' = None
    /\ response' = [t |-> "RequestException"]
    /\ current_data' = pyNone
    /\ filtered_count' = 0
    /\ idx' = 0
    /\ period' = "24h"
    /\ threshold_str' = <<>>
    /\ filtered' = [t |-> "idle"]
    /\ loaded' = [t |-> "idle"]
    /\ UNCHANGED <<file, runs>>

Init ==
    /\ op = "idle"
    /\ symbols = <<>>
    /\ min_market_cap = None
    /\ response = [t |-> "RequestException"]
    /\ current_data = pyNone
    /\ filtered_count = 0
    /\ idx = 0
    /\ file = [kind |-> "missing"]
    /\ period = "24h"
    /\ threshold_str = <<>>
    /\ filtered = [t |-> "idle"]
    /\ loaded = [t |-> "idle"]
    /\ pc = "start"
    /\ data = pyNone
    /\ runs = 0

Next ==
    \/ CallGetCryptoData
    \/ CallGetCompleteData
    \/ HistoryStep
    \/ ReturnCompleteData
    \/ FetcherIdle

Spec == Init /\ [][Next]_vars

FilterInit ==
    /\ op = "idle"
    /\ symbols = <<>>
    /\ min_market_cap = None
    /\ response = [t |-> "RequestException"]
    /\ current_data = pyNone
    /\ filtered_count = 0
    /\ idx = 0
    /\ file \in Files
    /\ period = "24h"
    /\ threshold_str = <<>>
    /\ filtered = [t |-> "idle"]
    /\ loaded = [t |-> "idle"]
    /\ pc = "start"
    /\ data = pyNone
    /\ runs = 0

FilterNext ==
    \/ CallLoadCryptoData
    \/ CallChangePercentFilter
    \/ FilterIdle

FilterSpec == FilterInit /\ [][FilterNext]_vars

MainNext ==
    \/ MainStart
    \/ MainHistoryStep
    \/ ReturnCompleteData
    \/ MainGotData
    \/ MainDisplay
    \/ MainSave
    \/ MainQuery
    \/ MainRestart

MainSpec == Init /\ [][MainNext]_vars

\* ------------------------------------------------------------ properties

Windows ==
    {<<"price_1_month_ago", "change_1m_percent">>,
     <<"price_3_months_ago", "change_3m_percent">>,
     <<"price_6_months_ago", "change_6m_percent">>}

NoRepeat(s) == \A i, j \in 1..Len(s) : s[i] = s[j] => i = j

BuiltRecords == op = "get_crypto_data" /\ response.t = "ok"

\* C1: the mapping returned by get_crypto_data holds a record for s exactly
\* when s is listed, s is in the response, and the threshold is absent, or
\* the market cap is unknown, or the market cap is at least the threshold.
C1_RecordIffPasses ==
    BuiltRecords =>
        /\ current_data.t = "dict"
        /\ \A s \in Symbols :
             HasKey(current_data, s) <=>
                /\ \E i \in 1..Len(symbols) : symbols[i] = s
                /\ s \in DOMAIN response.data
                /\ \/ min_market_cap = None
                   \/ response.data[s].market_cap = None
                   \/ response.data[s].market_cap[1] >= min_market_cap[1]
        /\ \A s \in DOMAIN current_data.vals :
             LET cap == current_data.vals[s].market_cap
             IN ~(min_market_cap # None /\ cap # None /\ cap[1] < min_market_cap[1])

C1_Witness ==
    /\ BuiltRecords
    /\ min_market_cap # None
    /\ \E s, u \in DOMAIN response.data :
         /\ response.data[s].market_cap = min_market_cap
         /\ HasKey(current_data, s)
         /\ response.data[u].market_cap # None
         /\ response.data[u].market_cap[1] < min_market_cap[1]
         /\ ~HasKey(current_data, u)

PresentSymbols == {s \in Range(symbols) : s \in DOMAIN response.data}

\* C2 as stated: for any symbol list, excluded count plus returned records
\* equals the number of listed symbols present in the response.
C2_CountsAddUp ==
    BuiltRecords =>
        filtered_count + Len(current_data.keys) = Cardinality(PresentSymbols)

\* C2 amended: the counts add up for a symbol list that names no symbol
\* twice.
C2_CountsAddUpNoRepeat ==
    (BuiltRecords /\ NoRepeat(symbols)) =>
        filtered_count + Len(current_data.keys) = Cardinality(PresentSymbols)

C2_Witness ==
    /\ BuiltRecords
    /\ NoRepeat(symbols)
    /\ Len(symbols) = 2
    /\ filtered_count = 1
    /\ Len(current_data.keys) = 1

HistoryDone == op = "returned" /\ current_data.t = "dict"

WindowRight(info, w) ==
    IF info[w[1]] = None \/ info[w[1]][1] = 0
    THEN w[2] \notin DOMAIN info
    ELSE /\ w[2] \in DOMAIN info
         /\ info[w[2]] # None
         /\ info[w[2]][1] * info[w[1]][1] = (info.current_price[1] - info[w[1]][1]) * 100

\* C7 as stated: after get_complete_data every record has change_Nm_percent
\* absent when the fetched price of the window is absent or zero, and
\* otherwise equal to (current_price - price) / price * 100.
C7_DerivedPercent ==
    HistoryDone =>
        \A s \in DOMAIN current_data.vals : \A w \in Windows :
            WindowRight(current_data.vals[s], w)

\* C7 amended: the same, for a symbol list that names no symbol twice.
C7_DerivedPercentNoRepeat ==
    (HistoryDone /\ NoRepeat(symbols)) =>
        \A s \in DOMAIN current_data.vals : \A w \in Windows :
            WindowRight(current_data.vals[s], w)

C7_Witness ==
    /\ HistoryDone
    /\ NoRepeat(symbols)
    /\ \E s \in DOMAIN current_data.vals :
         LET info == current_data.vals[s]
         IN /\ info.price_1_month_ago = None
            /\ info.price_3_months_ago = Num(0)
            /\ info.price_6_months_ago = Num(50)
            /\ "change_6m_percent" \in DOMAIN info
            /\ info.change_6m_percent = Num(100)
            /\ "change_1m_percent" \notin DOMAIN info

QuoteFields ==
    {"name", "symbol", "current_price", "volume_24h", "percent_change_24h",
     "percent_change_7d", "percent_change_30d", "market_cap", "last_updated"}

\* C8: get_complete_data's history loop never raises, whatever the current
\* price (a decimal or None) and the outcomes of the three historical
\* fetches; it returns the mapping get_crypto_data built, with the same
\* symbols and the quote fields unchanged.
C8_HistoryNeverRaises ==
    /\ op # "raised"
    /\ HistoryDone =>
         /\ current_data.keys = GetCryptoData(symbols, min_market_cap, response).results.keys
         /\ \A s \in DOMAIN current_data.vals : \A f \in QuoteFields :
              current_data.vals[s][f] = NewRecord(response.data[s])[f]

ExpectedThreshold ==
    (Chars10Neg :> -10) @@ (Chars10 :> 10) @@ (Chars0 :> 0)
    @@ (<<"%", "-", "1", "2">> :> -12) @@ (Chars5Neg :> -5) @@ (Chars20 :> 20)

MappedField(per) ==
    CASE per = "24h" -> "percent_change_24h"
      [] per = "7d" -> "percent_change_7d"
      [] per = "30d" -> "percent_change_30d"
      [] per = "1m" -> "change_1m_percent"
      [] per = "3m" -> "change_3m_percent"
      [] per = "6m" -> "change_6m_percent"

HoldsRecords == file.kind = "json" /\ file.doc.j = "object"

\* The call returned a result for a valid period and a threshold that parses.
FilterAnswered ==
    /\ filtered.t = "returned"
    /\ period \in Periods
    /\ threshold_str \in DOMAIN ExpectedThreshold
    /\ HoldsRecords

Qualifies(info, per, t) ==
    /\ MappedField(per) \in DOMAIN info
    /\ info[MappedField(per)] # None
    /\ IF t < 0 THEN info[MappedField(per)][1] <= t ELSE info[MappedField(per)][1] >= t

C4_SortedAscending ==
    FilterAnswered =>
        LET t == ExpectedThreshold[threshold_str]
            members == file.doc.members
            result == filtered.result
        IN /\ \A i \in 1..(Len(result) - 1) : result[i].change <= result[i + 1].change
           /\ \A i, j \in 1..Len(result) : result[i].symbol = result[j].symbol => i = j
           /\ Len(result)
                = Cardinality({m \in 1..Len(members) : Qualifies(members[m][2], period, t)})

C4_Witness ==
    /\ FilterAnswered
    /\ Len(filtered.result) >= 2
    /\ filtered.result[1].change < filtered.result[2].change
    /\ filtered.result[1].symbol = file.doc.members[2][1]
    /\ filtered.result[2].symbol = file.doc.members[1][1]

\* C5: for a period outside {24h, 7d, 30d, 1m, 3m, 6m}, whatever the
\* threshold text, change_percent_filter reports the invalid period, returns
\* an empty result and does not raise; stated for the files that hold a
\* non-empty record set, one of the file states the claim covers.
C5_InvalidPeriodReported ==
    (filtered.t # "idle" /\ period \notin Periods
        /\ HoldsRecords /\ file.doc.members # <<>>) =>
        /\ filtered.t = "returned"
        /\ filtered.result = <<>>
        /\ "Invalid period" \in filtered.notices

MalformedTexts == {<<"a", "b", "c">>, <<>>}

\* C6: for a malformed threshold text and a file holding a non-empty record
\* set, change_percent_filter reports the failure and returns an empty
\* result instead of raising.
C6_MalformedThresholdReported ==
    (filtered.t # "idle" /\ threshold_str \in MalformedTexts
        /\ HoldsRecords /\ file.doc.members # <<>>) =>
        /\ filtered.t = "returned"
        /\ filtered.result = <<>>
        /\ filtered.notices # {}

\* C10: for a file that can be opened, load_crypto_data does not raise and
\* has three outcomes: None with "not found" for a missing file, None with
\* an invalid-format notice for a file that does not parse as a mapping of
\* records, the mapping otherwise; so change_percent_filter, called with a
\* valid period and a threshold that parses, receives a mapping or None and
\* does not raise on a file that holds no mapping.
C10_LoadThreeOutcomes ==
    (loaded.t # "idle" /\ file.kind # "unreadable") =>
        /\ loaded.t = "returned"
        /\ file.kind = "missing" =>
             loaded.value = pyNone /\ "not found" \in loaded.notices
        /\ (file.kind # "missing" /\ ~HoldsRecords) =>
             loaded.value = pyNone /\ loaded.notices # {}
        /\ HoldsRecords => loaded.value.t = "dict"
        /\ loaded.t = "returned" => loaded.value.t \in {"None", "dict"}
        /\ (filtered.t # "idle" /\ ~HoldsRecords /\ period \in Periods
                /\ threshold_str \in DOMAIN ExpectedThreshold) =>
             filtered.t = "returned"

\* C9 as stated: in every run of the entry point, whenever a filter query
\* loads the file, the content equals the record set this run's fetch
\* produced.
C9_QueriesReadThisRun ==
    (loaded.t = "returned" /\ loaded.value # pyNone) => loaded.value = data

\* C9 amended: in every run whose fetch produced a non-empty record set,
\* the queries run after the save and load that record set.
C9_QueriesReadThisRunWhenSaved ==
    (loaded.t = "returned" /\ data.t = "dict") =>
        /\ pc \in {"query2", "query3", "query4", "exit", "crashed"}
        /\ loaded.value = data

C9_Witness ==
    /\ runs = 2
    /\ pc = "exit"
    /\ data.t = "dict"
    /\ Len(data.keys) = 1
    /\ loaded.t = "returned"
    /\ loaded.value = data
====
